---- MODULE Spec2Model ----
(***************************************************************************)
(* Token lifecycle and access control of the cobalt-stack backend:         *)
(* signed access / refresh tokens (services/auth/jwt.rs), the refresh      *)
(* token store (services/auth/token_rotation.rs), the Valkey blacklist and *)
(* login rate limiter (services/valkey), the auth and admin middleware and *)
(* the register / login / refresh / logout / admin handlers.               *)
(*                                                                         *)
(* Time is a discrete clock `now`.  One tick stands for one unit of every  *)
(* configured lifetime (refresh-token days, access-token minutes, cache    *)
(* seconds); the lifetimes are scaled to a few ticks.                       *)
(***************************************************************************)
EXTENDS Integers, FiniteSets, Sequences, TLC

\* ------------------------------------------------------------------ bounds
MaxTime == 2
MaxJti == 3
MaxTtl == 2
MaxRetention == 1
MaxCalls == 7

\* ------------------------------------------------- configuration (scaled)
refresh_token_expiry_days == 1
access_token_expiry_minutes == 1
max_attempts == 5
window_seconds == 2
verification_expiry_hours == 2
rate_limit_per_minute == 2
daily_message_quota == 3
minute_window == 1
daily_window == 2

secret == "server_secret"

None == -1
NoRow == [absent |-> TRUE]

Procs == {1, 2}
Jtis == 1..MaxJti
UserIds == {1, 2}
Usernames == {"admin", "alice"}
Passwords == {"admin123", "SecurePass123!"}
Origins == {"10.0.0.1"}

Emails == {"admin@example.com", "alice@example.com"}

VARIABLES
    now,              \* Utc::now()
    users,            \* table users: id -> row | NoRow
    refresh_tokens,   \* table refresh_tokens: jti -> row | NoRow
    email_verifications, \* table email_verifications: set of rows
    next_jti,         \* Uuid::new_v4() for refresh tokens: the next jti no row or token carries
    cookies,          \* refresh tokens handed to clients (Set-Cookie)
    bearers,          \* access tokens handed to clients
    blacklist,        \* Valkey keys blacklist:{token} -> absolute expiry
    counters,         \* Valkey keys ratelimit:login:{ip} -> [count, expire_at] | NoRow
    chat_counters,    \* Valkey keys ratelimit:chat:user:{id}:minute and quota:chat:user:{id}:daily
    cache_up,         \* whether the Valkey connection answers
    limiter,          \* the check_rate_limit calls in flight, one per process
    req,              \* the refresh requests in flight, one per process
    last,             \* outcome of the last completed non-refresh request
    revoked_jtis,     \* history: jtis whose row ever carried revoked_at
    disabled_jtis,    \* history: jtis that were Issued when their owner was disabled
    attempts          \* history: login attempts per origin in the current tick

vars == <<now, users, refresh_tokens, email_verifications, next_jti, cookies, bearers,
          blacklist, counters, chat_counters, cache_up, limiter, req, last, revoked_jtis,
          disabled_jtis, attempts>>

\* ------------------------------------------------------------ token codec

\* jwt.rs: create_access_token; encode() signs the claims with the secret
create_access_token(user_id, username, key, t) ==
    [claims |-> [sub |-> user_id, username |-> username,
                 exp |-> t + access_token_expiry_minutes, iat |-> t],
     sig |-> key]

\* jwt.rs: create_refresh_token; jti is a fresh Uuid
create_refresh_token(user_id, jti, key, t) ==
    [claims |-> [sub |-> user_id, exp |-> t + refresh_token_expiry_days, iat |-> t,
                 jti |-> jti],
     sig |-> key]

verify_access_token_nosig(token, key, t) ==
    IF DOMAIN token.claims # {"sub", "username", "exp", "iat"}
    THEN [ok |-> FALSE, err |-> "InvalidToken"]
    ELSE IF token.claims.exp < t
    THEN [ok |-> FALSE, err |-> "TokenExpired"]
    ELSE [ok |-> TRUE, claims |-> token.claims]

\* jwt.rs: verify_access_token; decode() checks signature, shape and exp
verify_access_token(token, key, t) ==
    IF token.sig # key \/ DOMAIN token.claims # {"sub", "username", "exp", "iat"}
    THEN [ok |-> FALSE, err |-> "InvalidToken"]
    ELSE IF token.claims.exp < t
    THEN [ok |-> FALSE, err |-> "TokenExpired"]
    ELSE [ok |-> TRUE, claims |-> token.claims]

\* jwt.rs: verify_refresh_token
verify_refresh_token(token, key, t) ==
    IF token.sig # key \/ DOMAIN token.claims # {"sub", "exp", "iat", "jti"}
    THEN [ok |-> FALSE, err |-> "InvalidToken"]
    ELSE IF token.claims.exp < t
    THEN [ok |-> FALSE, err |-> "TokenExpired"]
    ELSE [ok |-> TRUE, claims |-> token.claims]

\* ---------------------------------------------------- refresh token store

\* token_rotation.rs: hash_token (SHA-256 hex digest of the token string)
hash_token(token) == <<"sha256", token>>

\* token_rotation.rs: store_refresh_token; the insert may fail (db_ok)
store_refresh_token_md5(db, user_id, token, jti, expires_in_days, t, db_ok) ==
    IF db_ok /\ db[jti] = NoRow
    THEN [ok |-> TRUE,
          db |-> [db EXCEPT ![jti] = [user_id |-> user_id, token_hash |-> <<"md5", token>>,
                                      expires_at |-> t + expires_in_days,
                                      revoked_at |-> None, created_at |-> t]]]
    ELSE [ok |-> FALSE, db |-> db]

store_refresh_token(db, user_id, token, jti, expires_in_days, t, db_ok) ==
    IF db_ok /\ db[jti] = NoRow
    THEN [ok |-> TRUE,
          db |-> [db EXCEPT ![jti] = [user_id |-> user_id, token_hash |-> hash_token(token),
                                      expires_at |-> t + expires_in_days,
                                      revoked_at |-> None, created_at |-> t]]]
    ELSE [ok |-> FALSE, db |-> db]

validate_refresh_token_norevcheck(db, token, jti, t) ==
    IF db[jti] = NoRow THEN [ok |-> FALSE, err |-> "InvalidToken"]
    ELSE IF db[jti].token_hash # hash_token(token) THEN [ok |-> FALSE, err |-> "InvalidToken"]
    ELSE IF db[jti].expires_at < t THEN [ok |-> FALSE, err |-> "TokenExpired"]
    ELSE [ok |-> TRUE, user_id |-> db[jti].user_id]

validate_refresh_token_expiryfirst(db, token, jti, t) ==
    IF db[jti] = NoRow THEN [ok |-> FALSE, err |-> "InvalidToken"]
    ELSE IF db[jti].token_hash # hash_token(token) THEN [ok |-> FALSE, err |-> "InvalidToken"]
    ELSE IF db[jti].expires_at < t THEN [ok |-> FALSE, err |-> "TokenExpired"]
    ELSE IF db[jti].revoked_at # None THEN [ok |-> FALSE, err |-> "TokenBlacklisted"]
    ELSE [ok |-> TRUE, user_id |-> db[jti].user_id]

\* token_rotation.rs: validate_refresh_token
validate_refresh_token(db, token, jti, t) ==
    IF db[jti] = NoRow THEN [ok |-> FALSE, err |-> "InvalidToken"]
    ELSE IF db[jti].token_hash # hash_token(token) THEN [ok |-> FALSE, err |-> "InvalidToken"]
    ELSE IF db[jti].revoked_at # None THEN [ok |-> FALSE, err |-> "TokenBlacklisted"]
    ELSE IF db[jti].expires_at < t THEN [ok |-> FALSE, err |-> "TokenExpired"]
    ELSE [ok |-> TRUE, user_id |-> db[jti].user_id]

revoke_refresh_token_noop(db, jti, t, db_ok) ==
    IF db[jti] = NoRow \/ ~db_ok
    THEN [ok |-> FALSE, db |-> db]
    ELSE [ok |-> TRUE, db |-> db]

revoke_refresh_token_unstamped(db, jti, t, db_ok) ==
    IF db[jti] = NoRow \/ ~db_ok
    THEN [ok |-> FALSE, db |-> db]
    ELSE [ok |-> TRUE, db |-> [db EXCEPT ![jti].revoked_at = None]]

\* token_rotation.rs: revoke_refresh_token; find_by_id, then update revoked_at
revoke_refresh_token(db, jti, t, db_ok) ==
    IF db[jti] = NoRow \/ ~db_ok
    THEN [ok |-> FALSE, db |-> db]
    ELSE [ok |-> TRUE, db |-> [db EXCEPT ![jti].revoked_at = t]]

\* token_rotation.rs: rotate_refresh_token; two writes, the second only after the first
rotate_refresh_token(db, old_jti, new_token, new_jti, user_id, expires_in_days, t, revoke_ok, store_ok) ==
    LET r == revoke_refresh_token(db, old_jti, t, revoke_ok)
        st == store_refresh_token(r.db, user_id, new_token, new_jti, expires_in_days, t,
                                  store_ok)
    IN IF ~r.ok THEN [ok |-> FALSE, db |-> db]
       ELSE IF ~st.ok THEN [ok |-> FALSE, db |-> r.db]
       ELSE [ok |-> TRUE, db |-> st.db]

\* token_rotation.rs: revoke_all_user_tokens
revoke_all_user_tokens_restamp(db, user_id, t) ==
    [j \in Jtis |->
        IF db[j] # NoRow /\ db[j].user_id = user_id
        THEN [db[j] EXCEPT !.revoked_at = t]
        ELSE db[j]]

revoke_all_user_tokens_expiring(db, user_id, t) ==
    [j \in Jtis |->
        IF db[j] # NoRow /\ db[j].user_id = user_id /\ db[j].revoked_at = None
        THEN [db[j] EXCEPT !.revoked_at = t, !.expires_at = t]
        ELSE db[j]]

revoke_all_user_tokens(db, user_id, t) ==
    [j \in Jtis |->
        IF db[j] # NoRow /\ db[j].user_id = user_id /\ db[j].revoked_at = None
        THEN [db[j] EXCEPT !.revoked_at = t]
        ELSE db[j]]

\* token_rotation.rs: cleanup_expired_tokens
cleanup_expired_tokens_inclusive(db, retention_days, t) ==
    LET cutoff == t - retention_days
        gone == {j \in Jtis : db[j] # NoRow /\ db[j].expires_at <= cutoff}
    IN [rows_affected |-> Cardinality(gone),
        db |-> [j \in Jtis |-> IF j \in gone THEN NoRow ELSE db[j]]]

cleanup_expired_tokens(db, retention_days, t) ==
    LET cutoff == t - retention_days
        gone == {j \in Jtis : db[j] # NoRow /\ db[j].expires_at < cutoff}
    IN [rows_affected |-> Cardinality(gone),
        db |-> [j \in Jtis |-> IF j \in gone THEN NoRow ELSE db[j]]]

\* ------------------------------------------------------------- passwords

\* password.rs: hash_password (Argon2id, PHC string with a random salt)
hash_password(password, salt) ==
    IF Len(password) < 8 \/ Len(password) > 128
    THEN [ok |-> FALSE, err |-> "WeakPassword"]
    ELSE [ok |-> TRUE, hash |-> [alg |-> "argon2id", salt |-> salt, pw |-> password]]

\* password.rs: verify_password
verify_password(password, password_hash) ==
    IF DOMAIN password_hash # {"alg", "salt", "pw"}
    THEN [ok |-> FALSE, err |-> "InvalidCredentials"]
    ELSE [ok |-> TRUE, matches |-> password_hash.pw = password]

\* ----------------------------------------------------------------- cache

\* blacklist.rs: is_blacklisted (EXISTS on a key with a TTL)
is_blacklisted(bl, token, t) == \E e \in bl : e.token = token /\ t < e.expire_at

\* ------------------------------------------------------------------ users

UserByName(username) == {u \in UserIds : users[u] # NoRow /\ users[u].username = username}
UserByEmail(email) == {u \in UserIds : users[u] # NoRow /\ users[u].email = email}
\* the primary key a row gets (gen_random_uuid / Uuid::new_v4): usernames are unique and
\* rows are never deleted, so the key is named after the username
NewUserId(username) == IF username = "admin" THEN 1 ELSE 2

NoToken == [absent |-> TRUE]
\* the jtis whose row carries a revocation timestamp
RevokedNow(db) == {j \in Jtis : db[j] # NoRow /\ db[j].revoked_at # None}

IdleReq == [pc |-> "idle", result |-> "none", old |-> NoToken, user_id |-> 0,
            new_at |-> NoToken, new_rt |-> NoToken, new_expires_at |-> None,
            after_disable |-> FALSE]
NoLast == [op |-> "none"]
\* no chat counter of a user exists
NoChat == [minute |-> NoRow, daily |-> NoRow]
\* no check_rate_limit call is running
IdleCall == [pc |-> "idle", ip |-> ""]

Init ==
    /\ now = 0
    /\ users = [u \in UserIds |-> NoRow]
    /\ refresh_tokens = [j \in Jtis |-> NoRow]
    /\ email_verifications = {}
    /\ next_jti = 1
    /\ cookies = {}
    /\ bearers = {}
    /\ blacklist = {}
    /\ counters = [o \in Origins |-> NoRow]
    /\ chat_counters = [u \in UserIds |-> NoChat]
    /\ cache_up = TRUE
    /\ limiter = [p \in Procs |-> IdleCall]
    /\ req = [p \in Procs |-> IdleReq]
    /\ last = NoLast
    /\ revoked_jtis = {}
    /\ disabled_jtis = {}
    /\ attempts = [o \in Origins |-> 0]

\* ------------------------------------------------------------ the clients

\* tokens signed with a key the server does not use
ForgedAccess == create_access_token(1, "admin", "other_secret", 0)
ForgedRefresh == create_refresh_token(1, 1, "other_secret", 0)

AccessTokens == bearers \cup {ForgedAccess}
RefreshTokens == cookies \cup {ForgedRefresh}

\* ------------------------------------------------------------- middleware

\* middleware/auth.rs: auth_middleware; yields the injected AuthUser
auth_middleware(token, t) ==
    LET v == verify_access_token(token, secret, t)
    IN IF ~v.ok THEN [ok |-> FALSE, status |-> "UNAUTHORIZED"]
       ELSE [ok |-> TRUE, user_id |-> v.claims.sub, username |-> v.claims.username]

\* middleware/admin.rs: admin_middleware, layered behind auth_middleware
admin_middleware_nodisabled(token, t) ==
    LET a == auth_middleware(token, t)
    IN IF ~a.ok THEN a
       ELSE IF users[a.user_id] = NoRow THEN [ok |-> FALSE, status |-> "UNAUTHORIZED"]
       ELSE IF users[a.user_id].role # "admin" THEN [ok |-> FALSE, status |-> "FORBIDDEN"]
       ELSE a

admin_middleware(token, t) ==
    LET a == auth_middleware(token, t)
    IN IF ~a.ok THEN a
       ELSE IF users[a.user_id] = NoRow THEN [ok |-> FALSE, status |-> "UNAUTHORIZED"]
       ELSE IF users[a.user_id].role # "admin" THEN [ok |-> FALSE, status |-> "FORBIDDEN"]
       ELSE IF users[a.user_id].disabled_at # None THEN [ok |-> FALSE, status |-> "FORBIDDEN"]
       ELSE a

\* ------------------------------------------------------- request handlers
\* Each handler is an operator from the request and the current tables to the
\* response and the tables it leaves; the actions below apply it.

UnchangedCache == UNCHANGED <<blacklist, counters, chat_counters, chat_counters, cache_up>>
UnchangedHistory == UNCHANGED <<revoked_jtis, disabled_jtis>>

\* bin/seed_admin.rs: main
SeedAdmin ==
    /\ UserByEmail("admin@example.com") = {}
    /\ UserByName("admin") = {}
    /\ LET id == NewUserId("admin")
           h == hash_password("admin123", 1)
       IN users' = [users EXCEPT ![id] =
                      [username |-> "admin", email |-> "admin@example.com",
                       password_hash |-> h.hash, role |-> "admin", email_verified |-> TRUE,
                       disabled_at |-> None]]
    /\ UNCHANGED <<now, refresh_tokens, email_verifications, limiter, next_jti, cookies, bearers,
                   req, last, attempts>>
    /\ UnchangedCache /\ UnchangedHistory

\* handlers/auth.rs: RegisterRequest::validate
RegisterRequest_validate(username, email, password) ==
    /\ Len(username) >= 3 /\ Len(username) <= 50
    /\ email \in Emails
    /\ Len(password) >= 8 /\ Len(password) <= 128

\* services/email/verification.rs: create_verification_token
create_verification_token(ev, user_id, t) ==
    LET id == Cardinality(ev) + 1
    IN ev \cup {[id |-> id, user_id |-> user_id, token_hash |-> hash_token(<<"verify", id>>),
                 expires_at |-> t + verification_expiry_hours, verified_at |-> None]}

register_nameonly(username, email, password, salt, db_ok) ==
    LET h == hash_password(password, salt)
        id == NewUserId(username)
        at == create_access_token(id, username, secret, now)
        rt == create_refresh_token(id, next_jti, secret, now)
        st == store_refresh_token(refresh_tokens, id, rt, next_jti,
                                  refresh_token_expiry_days, now, db_ok)
        fail(kind) == [result |-> kind, users |-> users, refresh_tokens |-> refresh_tokens,
                       email_verifications |-> email_verifications,
                       next_jti |-> next_jti, at |-> NoToken, rt |-> NoToken]
    IN IF ~RegisterRequest_validate(username, email, password) THEN fail("InvalidInput")
       ELSE IF UserByName(username) # {} THEN fail("UserAlreadyExists")
       ELSE IF ~h.ok THEN fail("PasswordHashError")
       ELSE [result |-> IF st.ok THEN "Ok" ELSE "DatabaseError",
             users |-> [users EXCEPT ![id] =
                          [username |-> username, email |-> email,
                           password_hash |-> h.hash, role |-> "user",
                           email_verified |-> FALSE, disabled_at |-> None]],
             email_verifications |-> create_verification_token(email_verifications, id, now),
             refresh_tokens |-> st.db,
             next_jti |-> IF st.ok THEN next_jti + 1 ELSE next_jti,
             at |-> IF st.ok THEN at ELSE NoToken,
             rt |-> IF st.ok THEN rt ELSE NoToken]

\* handlers/auth.rs: register
register(username, email, password, salt, db_ok) ==
    LET h == hash_password(password, salt)
        id == NewUserId(username)
        at == create_access_token(id, username, secret, now)
        rt == create_refresh_token(id, next_jti, secret, now)
        st == store_refresh_token(refresh_tokens, id, rt, next_jti,
                                  refresh_token_expiry_days, now, db_ok)
        fail(kind) == [result |-> kind, users |-> users, refresh_tokens |-> refresh_tokens,
                       email_verifications |-> email_verifications,
                       next_jti |-> next_jti, at |-> NoToken, rt |-> NoToken]
    IN IF ~RegisterRequest_validate(username, email, password) THEN fail("InvalidInput")
       ELSE IF UserByName(username) # {} THEN fail("UserAlreadyExists")
       ELSE IF UserByEmail(email) # {} THEN fail("UserAlreadyExists")
       ELSE IF ~h.ok THEN fail("PasswordHashError")
       ELSE [result |-> IF st.ok THEN "Ok" ELSE "DatabaseError",
             users |-> [users EXCEPT ![id] =
                          [username |-> username, email |-> email,
                           password_hash |-> h.hash, role |-> "user",
                           email_verified |-> FALSE, disabled_at |-> None]],
             email_verifications |-> create_verification_token(email_verifications, id, now),
             refresh_tokens |-> st.db,
             next_jti |-> IF st.ok THEN next_jti + 1 ELSE next_jti,
             at |-> IF st.ok THEN at ELSE NoToken,
             rt |-> IF st.ok THEN rt ELSE NoToken]

\* the tokens a response carries reach the client
Handed(set, token) == IF token = NoToken THEN set ELSE set \cup {token}

RegisterStep(username, email, password, db_ok) ==
    LET r == register(username, email, password, 1, db_ok)
    IN /\ next_jti <= MaxJti
       /\ users' = r.users
       /\ email_verifications' = r.email_verifications
       /\ refresh_tokens' = r.refresh_tokens
       /\ next_jti' = r.next_jti
       /\ cookies' = Handed(cookies, r.rt)
       /\ bearers' = Handed(bearers, r.at)
       /\ UNCHANGED <<now, req, limiter>>
       /\ UnchangedCache /\ UnchangedHistory

Register(names, emails, passwords) ==
    /\ \E username \in names, email \in emails, password \in passwords, db_ok \in BOOLEAN :
          RegisterStep(username, email, password, db_ok)
    /\ UNCHANGED <<last, attempts>>

\* a register request whose response and writes are kept for the properties
RegisterObserved ==
    /\ \E username \in Usernames, email \in Emails, password \in Passwords, db_ok \in BOOLEAN :
          LET r == register(username, email, password, 1, db_ok)
          IN /\ RegisterStep(username, email, password, db_ok)
             /\ last' = [op |-> "register", outcome |-> r.result,
                         collides |-> UserByName(username) # {} \/ UserByEmail(email) # {},
                         by_email |-> UserByName(username) = {},
                         users_before |-> users, users_after |-> r.users,
                         added_verifications |-> r.email_verifications # email_verifications,
                         added_tokens |-> r.refresh_tokens # refresh_tokens,
                         issued |-> r.at # NoToken \/ r.rt # NoToken]
    /\ UNCHANGED attempts

login_leaky(username, password, db_ok) ==
    LET found == UserByName(username)
        u == CHOOSE x \in found : TRUE
        user == users[u]
        vp == verify_password(password, user.password_hash)
        at == create_access_token(u, user.username, secret, now)
        rt == create_refresh_token(u, next_jti, secret, now)
        st == store_refresh_token(refresh_tokens, u, rt, next_jti,
                                  refresh_token_expiry_days, now, db_ok)
        fail(kind) == [result |-> kind, refresh_tokens |-> refresh_tokens,
                       next_jti |-> next_jti, at |-> NoToken, rt |-> NoToken]
    IN IF username = "" \/ password = "" THEN fail("InvalidInput")
       ELSE IF found = {} THEN fail("UserNotFound")
       ELSE IF user.password_hash = NoRow THEN fail("InvalidCredentials")
       ELSE IF ~vp.ok THEN fail("InvalidCredentials")
       ELSE IF ~vp.matches THEN fail("InvalidCredentials")
       ELSE [result |-> IF st.ok THEN "Ok" ELSE "DatabaseError",
             refresh_tokens |-> st.db,
             next_jti |-> IF st.ok THEN next_jti + 1 ELSE next_jti,
             at |-> IF st.ok THEN at ELSE NoToken,
             rt |-> IF st.ok THEN rt ELSE NoToken]

\* handlers/auth.rs: login
login(username, password, db_ok) ==
    LET found == UserByName(username)
        u == CHOOSE x \in found : TRUE
        user == users[u]
        vp == verify_password(password, user.password_hash)
        at == create_access_token(u, user.username, secret, now)
        rt == create_refresh_token(u, next_jti, secret, now)
        st == store_refresh_token(refresh_tokens, u, rt, next_jti,
                                  refresh_token_expiry_days, now, db_ok)
        fail(kind) == [result |-> kind, refresh_tokens |-> refresh_tokens,
                       next_jti |-> next_jti, at |-> NoToken, rt |-> NoToken]
    IN IF username = "" \/ password = "" THEN fail("InvalidInput")
       ELSE IF found = {} THEN fail("InvalidCredentials")
       ELSE IF user.password_hash = NoRow THEN fail("InvalidCredentials")
       ELSE IF ~vp.ok THEN fail("InvalidCredentials")
       ELSE IF ~vp.matches THEN fail("InvalidCredentials")
       ELSE [result |-> IF st.ok THEN "Ok" ELSE "DatabaseError",
             refresh_tokens |-> st.db,
             next_jti |-> IF st.ok THEN next_jti + 1 ELSE next_jti,
             at |-> IF st.ok THEN at ELSE NoToken,
             rt |-> IF st.ok THEN rt ELSE NoToken]

LoginStep(username, password, db_ok) ==
    LET r == login(username, password, db_ok)
    IN /\ next_jti <= MaxJti
       /\ refresh_tokens' = r.refresh_tokens
       /\ next_jti' = r.next_jti
       /\ cookies' = Handed(cookies, r.rt)
       /\ bearers' = Handed(bearers, r.at)
       /\ UNCHANGED <<now, users, email_verifications, limiter, req>>
       /\ UnchangedCache /\ UnchangedHistory

Login ==
    /\ \E username \in Usernames, password \in Passwords, db_ok \in BOOLEAN :
          LoginStep(username, password, db_ok)
    /\ UNCHANGED <<last, attempts>>

\* models/users.rs: password_hash is nullable, and a stored string need not be a PHC
\* string; such rows reach the table from outside the handlers
StoredHashes == {NoRow, [raw |-> "not-a-phc-string"]}

ExternalAccount ==
    /\ UserByName("alice") = {}
    /\ UserByEmail("alice@example.com") = {}
    /\ \E h \in StoredHashes :
          users' = [users EXCEPT ![NewUserId("alice")] =
                      [username |-> "alice", email |-> "alice@example.com",
                       password_hash |-> h, role |-> "user", email_verified |-> FALSE,
                       disabled_at |-> None]]
    /\ UNCHANGED <<now, refresh_tokens, email_verifications, limiter, next_jti, cookies, bearers,
                   req, last, attempts>>
    /\ UnchangedCache /\ UnchangedHistory

\* which of the credential checks of login a request runs into
LoginCase(username, password) ==
    LET found == UserByName(username)
        h == users[CHOOSE x \in found : TRUE].password_hash
    IN IF found = {} THEN "unknown_user"
       ELSE IF h = NoRow THEN "no_hash"
       ELSE IF "raw" \in DOMAIN h THEN "bad_hash"
       ELSE IF h.pw # password THEN "wrong_password"
       ELSE "match"

\* a login whose whole response is kept for the properties
LoginAttempt ==
    /\ \E username \in Usernames, password \in Passwords, db_ok \in BOOLEAN :
          LET r == login(username, password, db_ok)
          IN /\ LoginStep(username, password, db_ok)
             /\ last' = [op |-> "login_attempt", case |-> LoginCase(username, password),
                         reply |-> [result |-> r.result, at |-> r.at, rt |-> r.rt],
                         wrote |-> r.refresh_tokens # refresh_tokens]
    /\ UNCHANGED attempts

IsDisabled(username) == \E u \in UserByName(username) : users[u].disabled_at # None

\* a login whose response is kept for the properties
LoginObserved ==
    /\ \E username \in Usernames, password \in Passwords, db_ok \in BOOLEAN :
          /\ LoginStep(username, password, db_ok)
          /\ last' = [op |-> "login", outcome |-> login(username, password, db_ok).result,
                      issued |-> login(username, password, db_ok).rt # NoToken,
                      disabled |-> IsDisabled(username)]
    /\ UNCHANGED attempts

\* a login sent from a network origin; attempts counts the logins of the origin in
\* the current tick, which lies inside one rate-limit window
LoginFrom ==
    \E origin \in Origins, username \in Usernames, password \in Passwords, db_ok \in BOOLEAN :
       /\ attempts[origin] <= max_attempts
       /\ LoginStep(username, password, db_ok)
       /\ attempts' = [attempts EXCEPT ![origin] = @ + 1]
       /\ last' = [op |-> "login", outcome |-> login(username, password, db_ok).result,
                   issued |-> login(username, password, db_ok).rt # NoToken,
                   disabled |-> IsDisabled(username),
                   attempt |-> attempts[origin] + 1]

\* a refresh request that ends with an error: nothing of the request is kept but its result
Done(p, kind) == req' = [req EXCEPT ![p] = [IdleReq EXCEPT !.pc = "done", !.result = kind]]

\* handlers/auth.rs: refresh_token, the whole handler
refresh_token_firstuser(tok, revoke_ok, store_ok) ==
    LET v == verify_refresh_token(tok, secret, now)
        val == validate_refresh_token(refresh_tokens, tok, v.claims.jti, now)
        uid == NewUserId("admin")
        at == create_access_token(uid, users[uid].username, secret, now)
        rt == create_refresh_token(uid, next_jti, secret, now)
        rot == rotate_refresh_token(refresh_tokens, v.claims.jti, rt, next_jti, uid,
                                    refresh_token_expiry_days, now, revoke_ok, store_ok)
        fail(kind) == [result |-> kind, refresh_tokens |-> refresh_tokens,
                       next_jti |-> next_jti, at |-> NoToken, rt |-> NoToken, user_id |-> 0]
    IN IF ~v.ok THEN fail("InvalidToken")
       ELSE IF ~val.ok THEN fail("InvalidToken")
       ELSE IF users[uid] = NoRow THEN fail("UserNotFound")
       ELSE [result |-> IF rot.ok THEN "Ok" ELSE "DatabaseError",
             refresh_tokens |-> rot.db,
             next_jti |-> IF rot.ok THEN next_jti + 1 ELSE next_jti,
             at |-> IF rot.ok THEN at ELSE NoToken,
             rt |-> IF rot.ok THEN rt ELSE NoToken,
             user_id |-> uid]

refresh_token(tok, revoke_ok, store_ok) ==
    LET v == verify_refresh_token(tok, secret, now)
        val == validate_refresh_token(refresh_tokens, tok, v.claims.jti, now)
        uid == val.user_id
        at == create_access_token(uid, users[uid].username, secret, now)
        rt == create_refresh_token(uid, next_jti, secret, now)
        rot == rotate_refresh_token(refresh_tokens, v.claims.jti, rt, next_jti, uid,
                                    refresh_token_expiry_days, now, revoke_ok, store_ok)
        fail(kind) == [result |-> kind, refresh_tokens |-> refresh_tokens,
                       next_jti |-> next_jti, at |-> NoToken, rt |-> NoToken, user_id |-> 0]
    IN IF ~v.ok THEN fail("InvalidToken")
       ELSE IF ~val.ok THEN fail("InvalidToken")
       ELSE IF users[uid] = NoRow THEN fail("UserNotFound")
       ELSE [result |-> IF rot.ok THEN "Ok" ELSE "DatabaseError",
             refresh_tokens |-> rot.db,
             next_jti |-> IF rot.ok THEN next_jti + 1 ELSE next_jti,
             at |-> IF rot.ok THEN at ELSE NoToken,
             rt |-> IF rot.ok THEN rt ELSE NoToken,
             user_id |-> uid]

\* a refresh request served from start to end with no other request in between
Refresh(p) ==
    /\ req[p].pc \in {"idle", "done"}
    /\ next_jti <= MaxJti
    /\ \E tok \in RefreshTokens, revoke_ok \in BOOLEAN, store_ok \in BOOLEAN :
          LET r == refresh_token(tok, revoke_ok, store_ok)
          IN /\ refresh_tokens' = r.refresh_tokens
             /\ next_jti' = r.next_jti
             /\ cookies' = Handed(cookies, r.rt)
             /\ bearers' = Handed(bearers, r.at)
             /\ revoked_jtis' = revoked_jtis \cup RevokedNow(r.refresh_tokens)
             /\ IF r.result = "Ok"
                THEN req' = [req EXCEPT ![p] =
                               [IdleReq EXCEPT !.pc = "done", !.result = "Ok", !.old = tok,
                                  !.user_id = r.user_id, !.new_rt = r.rt,
                                  !.new_expires_at =
                                      r.refresh_tokens[r.rt.claims.jti].expires_at,
                                  !.after_disable = tok.claims.jti \in disabled_jtis]]
                ELSE Done(p, r.result)
    /\ UNCHANGED <<now, users, email_verifications, limiter, last, attempts, disabled_jtis>>
    /\ UnchangedCache

\* handlers/auth.rs: refresh_token, cookie -> verify_refresh_token -> validate_refresh_token
RefreshValidate(p) ==
    /\ req[p].pc \in {"idle", "done"}
    /\ \E tok \in RefreshTokens :
          LET v == verify_refresh_token(tok, secret, now)
              val == validate_refresh_token(refresh_tokens, tok, v.claims.jti, now)
              fresh == [IdleReq EXCEPT !.old = tok]
          IN IF ~v.ok THEN Done(p, "InvalidToken")
             ELSE IF ~val.ok THEN Done(p, "InvalidToken")
             ELSE req' = [req EXCEPT ![p] =
                            [fresh EXCEPT !.pc = "validated", !.user_id = val.user_id,
                                          !.after_disable = v.claims.jti \in disabled_jtis]]
    /\ UNCHANGED <<now, users, refresh_tokens, email_verifications, limiter, next_jti, cookies,
                   bearers, last, attempts>>
    /\ UnchangedCache /\ UnchangedHistory

\* handlers/auth.rs: refresh_token, Users::find_by_id and the new token pair
RefreshCreate(p) ==
    /\ req[p].pc = "validated"
    /\ next_jti <= MaxJti
    /\ LET uid == req[p].user_id
       IN IF users[uid] = NoRow
          THEN /\ Done(p, "UserNotFound")
               /\ UNCHANGED next_jti
          ELSE /\ req' = [req EXCEPT ![p].pc = "rotating",
                            ![p].new_at = create_access_token(uid, users[uid].username,
                                                              secret, now),
                            ![p].new_rt = create_refresh_token(uid, next_jti, secret, now)]
               /\ next_jti' = next_jti + 1
    /\ UNCHANGED <<now, users, refresh_tokens, email_verifications, limiter, cookies,
                   bearers, last, attempts>>
    /\ UnchangedCache /\ UnchangedHistory

\* token_rotation.rs: rotate_refresh_token, first write (revoke the old row)
RefreshRevoke(p) ==
    /\ req[p].pc = "rotating"
    /\ \E db_ok \in BOOLEAN :
          LET jti == req[p].old.claims.jti
              r == revoke_refresh_token(refresh_tokens, jti, now, db_ok)
          IN IF r.ok
             THEN /\ refresh_tokens' = r.db
                  /\ revoked_jtis' = revoked_jtis \cup RevokedNow(r.db)
                  /\ req' = [req EXCEPT ![p].pc = "storing"]
             ELSE /\ Done(p, "DatabaseError")
                  /\ UNCHANGED <<refresh_tokens, revoked_jtis>>
    /\ UNCHANGED <<now, users, email_verifications, limiter, next_jti, cookies, bearers, last,
                   attempts, disabled_jtis>>
    /\ UnchangedCache

\* token_rotation.rs: rotate_refresh_token, second write (insert the new row),
\* and the response of handlers/auth.rs: refresh_token
RefreshStore(p) ==
    /\ req[p].pc = "storing"
    /\ \E db_ok \in BOOLEAN :
          LET rt == req[p].new_rt
              st == store_refresh_token(refresh_tokens, req[p].user_id, rt, rt.claims.jti,
                                        refresh_token_expiry_days, now, db_ok)
          IN IF st.ok
             THEN /\ refresh_tokens' = st.db
                  /\ cookies' = cookies \cup {rt}
                  /\ bearers' = bearers \cup {req[p].new_at}
                  /\ req' = [req EXCEPT ![p].pc = "done", ![p].result = "Ok",
                                        ![p].new_at = NoToken,
                                        ![p].new_expires_at = st.db[rt.claims.jti].expires_at]
             ELSE /\ Done(p, "DatabaseError")
                  /\ UNCHANGED <<refresh_tokens, cookies, bearers>>
    /\ UNCHANGED <<now, users, email_verifications, limiter, next_jti, last, attempts>>
    /\ UnchangedCache /\ UnchangedHistory

\* handlers/auth.rs: logout, behind auth_middleware
logout(at, rt, db_ok) ==
    LET a == auth_middleware(at, now)
        v == verify_refresh_token(rt, secret, now)
        r == revoke_refresh_token(refresh_tokens, v.claims.jti, now, db_ok)
        fail(kind, ran) == [result |-> kind, granted |-> ran,
                            refresh_tokens |-> refresh_tokens, blacklist |-> blacklist]
    IN IF ~a.ok THEN fail("Unauthorized", FALSE)
       ELSE IF ~v.ok THEN fail("InvalidToken", TRUE)
       ELSE IF ~r.ok THEN fail("DatabaseError", TRUE)
       ELSE [result |-> "Ok", granted |-> TRUE, refresh_tokens |-> r.db,
             blacklist |-> blacklist]

LogoutStep(at, rt, db_ok) ==
    LET r == logout(at, rt, db_ok)
    IN /\ refresh_tokens' = r.refresh_tokens
       /\ blacklist' = r.blacklist
       /\ revoked_jtis' = revoked_jtis \cup RevokedNow(r.refresh_tokens)
       /\ UNCHANGED <<now, users, email_verifications, limiter, next_jti, cookies, bearers, req,
                      attempts, disabled_jtis, counters, chat_counters, cache_up>>

Logout ==
    /\ \E at \in AccessTokens, rt \in RefreshTokens, db_ok \in BOOLEAN :
          LogoutStep(at, rt, db_ok)
    /\ UNCHANGED last

\* token_rotation.rs: validate_refresh_token called with any token string and any jti;
\* the call, the row it looked at and its answer are kept for the properties
ValidateRefreshToken ==
    /\ \E token \in RefreshTokens, jti \in Jtis :
          last' = [op |-> "validate", token |-> token, at |-> now,
                   row |-> refresh_tokens[jti],
                   reply |-> validate_refresh_token(refresh_tokens, token, jti, now)]
    /\ UNCHANGED <<now, users, refresh_tokens, email_verifications, limiter, next_jti, cookies,
                   bearers, req, attempts>>
    /\ UnchangedCache /\ UnchangedHistory

\* the refresh_tokens row a refresh token names by its jti, NoRow for a token that does
\* not verify
NamedRow(db, rt) ==
    LET v == verify_refresh_token(rt, secret, now)
    IN IF v.ok THEN db[v.claims.jti] ELSE NoRow

\* what verify_refresh_token and then validate_refresh_token find wrong with a refresh
\* token, "none" when both accept it
RefreshFault(tok) ==
    LET v == verify_refresh_token(tok, secret, now)
        val == validate_refresh_token(refresh_tokens, tok, v.claims.jti, now)
    IN IF ~v.ok THEN v.err ELSE IF ~val.ok THEN val.err ELSE "none"

\* a refresh request, served from start to end, whose response is kept for the properties
RefreshAttempt ==
    /\ next_jti <= MaxJti
    /\ \E tok \in RefreshTokens, revoke_ok \in BOOLEAN, store_ok \in BOOLEAN :
          LET r == refresh_token(tok, revoke_ok, store_ok)
          IN /\ refresh_tokens' = r.refresh_tokens
             /\ next_jti' = r.next_jti
             /\ cookies' = Handed(cookies, r.rt)
             /\ bearers' = Handed(bearers, r.at)
             /\ revoked_jtis' = revoked_jtis \cup RevokedNow(r.refresh_tokens)
             /\ last' = [op |-> "refresh", outcome |-> r.result, fault |-> RefreshFault(tok),
                         old_sub |-> tok.claims.sub,
                         old_owner |-> NamedRow(refresh_tokens, tok),
                         new_owner |-> IF r.rt = NoToken THEN NoRow
                                       ELSE r.refresh_tokens[r.rt.claims.jti],
                         at |-> r.at, rt |-> r.rt]
    /\ UNCHANGED <<now, users, email_verifications, limiter, req, attempts, disabled_jtis>>
    /\ UnchangedCache

\* jwt.rs: the secrets a JwtConfig may hold
Keys == {secret, "other_secret"}

\* jwt.rs: create_access_token for any user id, username and secret
IssueAccessToken ==
    /\ \E user_id \in UserIds, username \in Usernames, key \in Keys :
          last' = [op |-> "issued", user_id |-> user_id, username |-> username, key |-> key,
                   issued_at |-> now,
                   token |-> create_access_token(user_id, username, key, now)]
    /\ UNCHANGED <<now, users, refresh_tokens, email_verifications, limiter, next_jti, cookies,
                   bearers, req, attempts>>
    /\ UnchangedCache /\ UnchangedHistory

\* jwt.rs: verify_access_token on the token issued last, under any secret
VerifyAccessToken ==
    /\ last.op \in {"issued", "verified"}
    /\ \E key \in Keys :
          last' = [op |-> "verified", user_id |-> last.user_id, username |-> last.username,
                   key |-> last.key, issued_at |-> last.issued_at, token |-> last.token,
                   with_key |-> key, at |-> now,
                   reply |-> verify_access_token(last.token, key, now)]
    /\ UNCHANGED <<now, users, refresh_tokens, email_verifications, limiter, next_jti, cookies,
                   bearers, req, attempts>>
    /\ UnchangedCache /\ UnchangedHistory

\* utils/token.rs: the token strings generate_verification_token hands out, one per
\* verification record, and a string that was never handed out
VerificationTokens == {<<"verify", u>> : u \in UserIds}
StrangerToken == <<"verify", 0>>

\* the successful verify_email calls so far, per token
OkCalls == IF last.op = "verify_email" THEN last.ok_calls ELSE [t \in VerificationTokens |-> 0]

\* services/email/verification.rs: verify_email_token, the lookup by hash and the two
\* checks on the row found
VerifyFind(p) ==
    /\ req[p].pc \in {"idle", "done"}
    /\ \E token \in VerificationTokens \cup {StrangerToken} :
          LET found == {v \in email_verifications : v.token_hash = hash_token(token)}
              verification == CHOOSE v \in found : TRUE
          IN IF found = {} THEN Done(p, "Invalid verification token")
             ELSE IF verification.verified_at # None THEN Done(p, "Email already verified")
             ELSE IF verification.expires_at < now THEN Done(p, "Verification token expired")
             ELSE req' = [req EXCEPT ![p] =
                            [IdleReq EXCEPT !.pc = "verify_found", !.old = token,
                                            !.user_id = verification.user_id]]
    /\ UNCHANGED <<now, users, refresh_tokens, email_verifications, limiter, next_jti, cookies,
                   bearers, last, attempts>>
    /\ UnchangedCache /\ UnchangedHistory

\* verify_email_token, first write: verified_at of the row that was found
VerifyMark(p) ==
    /\ req[p].pc = "verify_found"
    /\ email_verifications' =
          {IF v.token_hash = hash_token(req[p].old) THEN [v EXCEPT !.verified_at = now] ELSE v :
             v \in email_verifications}
    /\ req' = [req EXCEPT ![p].pc = "verify_marked"]
    /\ UNCHANGED <<now, users, refresh_tokens, limiter, next_jti, cookies, bearers, last,
                   attempts>>
    /\ UnchangedCache /\ UnchangedHistory

\* verify_email_token, second write: email_verified of the user, and the Ok it returns
VerifyFlag(p) ==
    /\ req[p].pc = "verify_marked"
    /\ IF users[req[p].user_id] = NoRow
       THEN /\ Done(p, "User not found")
            /\ UNCHANGED <<users, last>>
       ELSE /\ users' = [users EXCEPT ![req[p].user_id].email_verified = TRUE]
            /\ Done(p, "Ok")
            /\ last' = [op |-> "verify_email", token |-> req[p].old,
                        ok_calls |-> [OkCalls EXCEPT ![req[p].old] = @ + 1]]
    /\ UNCHANGED <<now, refresh_tokens, email_verifications, limiter, next_jti, cookies,
                   bearers, attempts>>
    /\ UnchangedCache /\ UnchangedHistory

\* a logout whose response and writes are kept for the properties
LogoutAttempt ==
    \E at \in bearers, rt \in cookies, db_ok \in BOOLEAN :
       LET r == logout(at, rt, db_ok)
       IN /\ LogoutStep(at, rt, db_ok)
          /\ last' = [op |-> "logout_attempt", outcome |-> r.result, granted |-> r.granted,
                      db_ok |-> db_ok,
                      row_before |-> NamedRow(refresh_tokens, rt),
                      row_after |-> NamedRow(r.refresh_tokens, rt),
                      added_to_blacklist |-> r.blacklist # blacklist]

\* the users row the sub claim of an access token names, as it is when the request arrives
ActorRow(at) == users[at.claims.sub]

\* what a gated request leaves behind for the properties
Gated(op, outcome, at, granted) ==
    [op |-> op, outcome |-> outcome, granted |-> granted,
     blacklisted |-> is_blacklisted(blacklist, at, now), cache |-> cache_up,
     signed |-> verify_access_token(at, secret, now).ok, actor |-> ActorRow(at)]

LogoutObserved ==
    \E at \in AccessTokens, rt \in RefreshTokens, db_ok \in BOOLEAN :
       /\ LogoutStep(at, rt, db_ok)
       /\ last' = Gated("logout", logout(at, rt, db_ok).result, at,
                        logout(at, rt, db_ok).granted)

\* handlers/auth.rs: get_current_user, behind auth_middleware
get_current_user(at) ==
    LET a == auth_middleware(at, now)
    IN IF ~a.ok THEN [result |-> "Unauthorized", granted |-> FALSE]
       ELSE IF users[a.user_id] = NoRow THEN [result |-> "UserNotFound", granted |-> TRUE]
       ELSE [result |-> "Ok", granted |-> TRUE]

GetCurrentUser ==
    /\ \E at \in AccessTokens :
          last' = Gated("me", get_current_user(at).result, at,
                        get_current_user(at).granted)
    /\ UNCHANGED <<now, users, refresh_tokens, email_verifications, limiter, next_jti, cookies,
                   bearers, req, attempts>>
    /\ UnchangedCache /\ UnchangedHistory

IssuedJtis(user_id) ==
    {j \in Jtis : /\ refresh_tokens[j] # NoRow
                  /\ refresh_tokens[j].user_id = user_id
                  /\ refresh_tokens[j].revoked_at = None
                  /\ refresh_tokens[j].expires_at >= now}

\* handlers/admin.rs: disable_user, behind auth_middleware and admin_middleware
disable_user(at, target) ==
    LET a == admin_middleware(at, now)
        fail(kind, ran) == [result |-> kind, granted |-> ran, users |-> users,
                            refresh_tokens |-> refresh_tokens]
    IN IF ~a.ok THEN fail(a.status, FALSE)
       ELSE IF users[target] = NoRow THEN fail("NOT_FOUND", TRUE)
       ELSE IF users[target].disabled_at # None THEN fail("BAD_REQUEST", TRUE)
       ELSE [result |-> "Ok", granted |-> TRUE,
             users |-> [users EXCEPT ![target].disabled_at = now],
             refresh_tokens |-> refresh_tokens]

DisableStep(at, target) ==
    LET r == disable_user(at, target)
    IN /\ users' = r.users
       /\ refresh_tokens' = r.refresh_tokens
       /\ disabled_jtis' = IF r.result = "Ok"
                           THEN disabled_jtis \cup IssuedJtis(target)
                           ELSE disabled_jtis
       /\ UNCHANGED <<now, email_verifications, limiter, next_jti, cookies, bearers,
                      req, attempts, revoked_jtis>>
       /\ UnchangedCache

DisableUser ==
    /\ \E at \in AccessTokens, target \in UserIds : DisableStep(at, target)
    /\ UNCHANGED last

DisableUserObserved ==
    \E at \in AccessTokens, target \in UserIds :
       /\ DisableStep(at, target)
       /\ last' = Gated("disable_user", disable_user(at, target).result, at,
                        disable_user(at, target).granted)

\* handlers/admin.rs: enable_user, behind auth_middleware and admin_middleware
enable_user(at, target) ==
    LET a == admin_middleware(at, now)
        fail(kind, ran) == [result |-> kind, granted |-> ran, users |-> users]
    IN IF ~a.ok THEN fail(a.status, FALSE)
       ELSE IF users[target] = NoRow THEN fail("NOT_FOUND", TRUE)
       ELSE IF users[target].disabled_at = None THEN fail("BAD_REQUEST", TRUE)
       ELSE [result |-> "Ok", granted |-> TRUE,
             users |-> [users EXCEPT ![target].disabled_at = None]]

EnableStep(at, target) ==
    /\ users' = enable_user(at, target).users
    /\ UNCHANGED <<now, refresh_tokens, email_verifications, limiter, next_jti, cookies,
                   bearers, req, attempts>>
    /\ UnchangedCache /\ UnchangedHistory

EnableUser ==
    /\ \E at \in AccessTokens, target \in UserIds : EnableStep(at, target)
    /\ UNCHANGED last

EnableUserObserved ==
    \E at \in AccessTokens, target \in UserIds :
       /\ EnableStep(at, target)
       /\ last' = Gated("enable_user", enable_user(at, target).result, at,
                        enable_user(at, target).granted)

\* ------------------------------------------------ service-level operations

\* token_rotation.rs: revoke_all_user_tokens called for a user
RevokeAllUserTokens ==
    /\ \E u \in UserIds :
          /\ users[u] # NoRow
          /\ refresh_tokens' = revoke_all_user_tokens(refresh_tokens, u, now)
          /\ revoked_jtis' = revoked_jtis \cup
                RevokedNow(revoke_all_user_tokens(refresh_tokens, u, now))
    /\ UNCHANGED <<now, users, email_verifications, limiter, next_jti, cookies, bearers, req, last,
                   attempts, disabled_jtis>>
    /\ UnchangedCache

\* token_rotation.rs: cleanup_expired_tokens run by maintenance
\* a cleanup run whose return value and effect on the table are kept for the properties
CleanupObserved ==
    /\ \E retention_days \in 0..MaxRetention :
          LET r == cleanup_expired_tokens(refresh_tokens, retention_days, now)
          IN /\ refresh_tokens' = r.db
             /\ last' = [op |-> "cleanup", retention_days |-> retention_days,
                         rows_affected |-> r.rows_affected,
                         due |-> {j \in Jtis : refresh_tokens[j] # NoRow
                                      /\ refresh_tokens[j].expires_at < now - retention_days},
                         deleted |-> {j \in Jtis : refresh_tokens[j] # NoRow /\ r.db[j] = NoRow},
                         changed |-> {j \in Jtis : r.db[j] # refresh_tokens[j]},
                         lost |-> {tok \in cookies :
                            /\ validate_refresh_token(refresh_tokens, tok, tok.claims.jti, now).ok
                            /\ ~validate_refresh_token(r.db, tok, tok.claims.jti, now).ok}]
    /\ UNCHANGED <<now, users, email_verifications, limiter, next_jti, cookies, bearers, req,
                   attempts>>
    /\ UnchangedCache /\ UnchangedHistory

CleanupExpiredTokens ==
    /\ \E retention_days \in 0..MaxRetention :
          refresh_tokens' = cleanup_expired_tokens(refresh_tokens, retention_days, now).db
    /\ UNCHANGED <<now, users, email_verifications, limiter, next_jti, cookies, bearers, req, last,
                   attempts>>
    /\ UnchangedCache /\ UnchangedHistory

\* blacklist.rs: add_to_blacklist (SET key 1 EX ttl)
add_to_blacklist_late(bl, token, ttl, t) ==
    {e \in bl : e.token # token} \cup {[token |-> token, expire_at |-> t + ttl + 1]}

add_to_blacklist(bl, token, ttl, t) ==
    {e \in bl : e.token # token} \cup {[token |-> token, expire_at |-> t + ttl]}

\* the latest add_to_blacklist call for each token: when it was made and with which ttl
LatestAdds == IF last.op = "blacklist" THEN last.adds ELSE {}

\* token strings to blacklist: the service takes any string, signed here or not
SampleTokens == {ForgedAccess, create_access_token(NewUserId("alice"), "alice", secret, 0)}

\* an add_to_blacklist call that is remembered for the properties
AddToBlacklistObserved ==
    /\ cache_up
    /\ \E token \in SampleTokens, ttl \in 1..MaxTtl :
          /\ blacklist' = add_to_blacklist(blacklist, token, ttl, now)
          /\ last' = [op |-> "blacklist",
                      adds |-> {a \in LatestAdds : a.token # token}
                                 \cup {[token |-> token, at |-> now, ttl |-> ttl]}]
    /\ UNCHANGED <<now, users, refresh_tokens, email_verifications, limiter, next_jti, cookies,
                   bearers, counters, chat_counters, cache_up, req, attempts>>
    /\ UnchangedHistory

AddToBlacklist ==
    /\ cache_up
    /\ \E token \in bearers, ttl \in 1..MaxTtl :
          blacklist' = add_to_blacklist(blacklist, token, ttl, now)
    /\ UNCHANGED <<now, users, refresh_tokens, email_verifications, limiter, next_jti, cookies,
                   bearers, counters, chat_counters, cache_up, req, last, attempts>>
    /\ UnchangedHistory

check_rate_limit_offbyone(cs, ip, t) ==
    IF cs[ip] # NoRow /\ cs[ip].count > max_attempts
    THEN [exceeded |-> TRUE, counters |-> cs]
    ELSE IF cs[ip] # NoRow
    THEN [exceeded |-> FALSE, counters |-> [cs EXCEPT ![ip].count = @ + 1]]
    ELSE [exceeded |-> FALSE,
          counters |-> [cs EXCEPT ![ip] = [count |-> 1, expire_at |-> t + window_seconds]]]

\* rate_limit.rs: check_rate_limit (GET, then INCR or SET EX)
check_rate_limit(cs, ip, t) ==
    IF cs[ip] # NoRow /\ cs[ip].count >= max_attempts
    THEN [exceeded |-> TRUE, counters |-> cs]
    ELSE IF cs[ip] # NoRow
    THEN [exceeded |-> FALSE, counters |-> [cs EXCEPT ![ip].count = @ + 1]]
    ELSE [exceeded |-> FALSE,
          counters |-> [cs EXCEPT ![ip] = [count |-> 1, expire_at |-> t + window_seconds]]]

CheckRateLimit ==
    /\ cache_up
    /\ \E ip \in Origins : counters' = check_rate_limit(counters, ip, now).counters
    /\ UNCHANGED <<now, users, refresh_tokens, email_verifications, limiter, next_jti, cookies,
                   bearers, blacklist, chat_counters, cache_up, req, last, attempts>>
    /\ UnchangedHistory

\* the calls of check_rate_limit for each key since the key was created
CallsSoFar == IF last.op = "check" THEN last.nth ELSE [o \in Origins |-> 0]

\* a check_rate_limit call whose return value (Result<bool>) is kept for the properties
CheckRateLimitObserved ==
    /\ cache_up
    /\ \E ip \in Origins :
          LET r == check_rate_limit(counters, ip, now)
              n == IF counters[ip] = NoRow THEN 1 ELSE CallsSoFar[ip] + 1
          IN /\ n <= MaxCalls
             /\ counters' = r.counters
             /\ last' = [op |-> "check", ip |-> ip, reply |-> [exceeded |-> r.exceeded],
                         count |-> r.counters[ip].count,
                         nth |-> [CallsSoFar EXCEPT ![ip] = n]]
    /\ UNCHANGED <<now, users, refresh_tokens, email_verifications, limiter, next_jti, cookies,
                   bearers, blacklist, chat_counters, cache_up, req, attempts>>
    /\ UnchangedHistory

\* rate_limit.rs: check_rate_limit, the GET and the match on its answer
CheckRead(p) ==
    /\ limiter[p].pc = "idle"
    /\ cache_up
    /\ \E ip \in Origins :
          limiter' = [limiter EXCEPT ![p] =
                        IF counters[ip] # NoRow /\ counters[ip].count >= max_attempts
                        THEN IdleCall
                        ELSE IF counters[ip] # NoRow THEN [pc |-> "incr", ip |-> ip]
                        ELSE [pc |-> "set_ex", ip |-> ip]]
    /\ UNCHANGED <<now, users, refresh_tokens, email_verifications, next_jti, cookies,
                   bearers, blacklist, counters, chat_counters, cache_up, req, last, attempts>>
    /\ UnchangedHistory

\* rate_limit.rs: check_rate_limit, the INCR or SET EX that follows the GET; INCR of a
\* key that is gone creates it with the value 1 and no TTL
CheckWrite(p) ==
    /\ limiter[p].pc \in {"incr", "set_ex"}
    /\ LET ip == limiter[p].ip
       IN counters' =
             IF ~cache_up THEN counters
             ELSE IF limiter[p].pc = "set_ex"
             THEN [counters EXCEPT ![ip] = [count |-> 1, expire_at |-> now + window_seconds]]
             ELSE IF counters[ip] = NoRow
             THEN [counters EXCEPT ![ip] = [count |-> 1, expire_at |-> None]]
             ELSE [counters EXCEPT ![ip].count = @ + 1]
    /\ limiter' = [limiter EXCEPT ![p] = IdleCall]
    /\ UNCHANGED <<now, users, refresh_tokens, email_verifications, next_jti, cookies,
                   bearers, blacklist, chat_counters, cache_up, req, last, attempts>>
    /\ UnchangedHistory

\* the value of a counter key as GET reads it (count.unwrap_or(0))
Count(row) == IF row = NoRow THEN 0 ELSE row.count

\* Valkey TTL: -2 for a key that is gone, -1 for a key without expiry
Ttl(row, t) ==
    IF row = NoRow THEN -2 ELSE IF row.expire_at = None THEN -1 ELSE row.expire_at - t

Max(a, b) == IF a >= b THEN a ELSE b

\* chat_rate_limit.rs: check_per_minute_limit
check_per_minute_limit(cc, user_id, limit, t) ==
    LET current == Count(cc[user_id].minute)
    IN IF current >= limit
       THEN [exceeded |-> TRUE, limit_type |-> "per_minute", current |-> current,
             limit |-> limit, retry_after |-> Max(Ttl(cc[user_id].minute, t), 0)]
       ELSE [exceeded |-> FALSE, limit_type |-> "none", current |-> current,
             limit |-> limit, retry_after |-> None]

\* chat_rate_limit.rs: check_daily_quota
check_daily_quota(cc, user_id, limit, t) ==
    LET current == Count(cc[user_id].daily)
    IN IF current >= limit
       THEN [exceeded |-> TRUE, limit_type |-> "daily", current |-> current,
             limit |-> limit, retry_after |-> Max(Ttl(cc[user_id].daily, t), 0)]
       ELSE [exceeded |-> FALSE, limit_type |-> "none", current |-> current,
             limit |-> limit, retry_after |-> None]

\* one counter key after GET, then SET EX (no key) or INCR
Incremented(row, window, t) ==
    IF row = NoRow THEN [count |-> 1, expire_at |-> t + window]
    ELSE [row EXCEPT !.count = @ + 1]

\* chat_rate_limit.rs: increment_chat_counters; the connection may fail after the
\* first key was written (second_ok = FALSE)
increment_chat_counters(cc, user_id, t, second_ok) ==
    LET first == [cc EXCEPT ![user_id].minute = Incremented(@, minute_window, t)]
    IN IF ~second_ok THEN [ok |-> FALSE, chat_counters |-> first]
       ELSE [ok |-> TRUE,
             chat_counters |-> [first EXCEPT ![user_id].daily = Incremented(@, daily_window, t)]]

check_chat_rate_limit_eager(cc, user_id, t, first_ok, second_ok) ==
    LET minute_result == check_per_minute_limit(cc, user_id, rate_limit_per_minute, t)
        bumped == [cc EXCEPT ![user_id].minute = Incremented(@, minute_window, t)]
        daily_result == check_daily_quota(cc, user_id, daily_message_quota, t)
        inc == increment_chat_counters(cc, user_id, t, second_ok)
    IN IF ~first_ok THEN [result |-> "Err", chat_counters |-> cc]
       ELSE IF minute_result.exceeded
       THEN [result |-> "Ok", reply |-> minute_result, chat_counters |-> cc]
       ELSE IF daily_result.exceeded
       THEN [result |-> "Ok", reply |-> daily_result, chat_counters |-> bumped]
       ELSE IF ~inc.ok THEN [result |-> "Err", chat_counters |-> inc.chat_counters]
       ELSE [result |-> "Ok",
             reply |-> [exceeded |-> FALSE, limit_type |-> "none",
                        current |-> minute_result.current + 1,
                        limit |-> rate_limit_per_minute, retry_after |-> None],
             chat_counters |-> inc.chat_counters]

\* chat_rate_limit.rs: check_chat_rate_limit; the connection may fail before anything
\* was written (first_ok = FALSE) or between the two increments (second_ok = FALSE)
check_chat_rate_limit(cc, user_id, t, first_ok, second_ok) ==
    LET minute_result == check_per_minute_limit(cc, user_id, rate_limit_per_minute, t)
        daily_result == check_daily_quota(cc, user_id, daily_message_quota, t)
        inc == increment_chat_counters(cc, user_id, t, second_ok)
    IN IF ~first_ok THEN [result |-> "Err", chat_counters |-> cc]
       ELSE IF minute_result.exceeded
       THEN [result |-> "Ok", reply |-> minute_result, chat_counters |-> cc]
       ELSE IF daily_result.exceeded
       THEN [result |-> "Ok", reply |-> daily_result, chat_counters |-> cc]
       ELSE IF ~inc.ok THEN [result |-> "Err", chat_counters |-> inc.chat_counters]
       ELSE [result |-> "Ok",
             reply |-> [exceeded |-> FALSE, limit_type |-> "none",
                        current |-> minute_result.current + 1,
                        limit |-> rate_limit_per_minute, retry_after |-> None],
             chat_counters |-> inc.chat_counters]

\* what the caller of check_chat_rate_limit got: exceeded, allowed or an error
Verdict(r) ==
    IF r.result = "Err" THEN "error" ELSE IF r.reply.exceeded THEN "exceeded" ELSE "allowed"

CheckChatStep(user_id, first_ok, second_ok) ==
    LET r == check_chat_rate_limit(chat_counters, user_id, now, first_ok, second_ok)
    IN /\ chat_counters' = r.chat_counters
       /\ last' = [op |-> "chat", user_id |-> user_id, verdict |-> Verdict(r),
                   limit_type |-> IF r.result = "Ok" THEN r.reply.limit_type ELSE "none",
                   retry_after |-> IF r.result = "Ok" THEN r.reply.retry_after ELSE None]
       /\ UNCHANGED <<now, users, refresh_tokens, email_verifications, limiter, next_jti,
                      cookies, bearers, blacklist, counters, cache_up, req, attempts>>
       /\ UnchangedHistory

CheckChatRateLimit ==
    /\ cache_up
    /\ \E user_id \in UserIds, first_ok \in BOOLEAN, second_ok \in BOOLEAN :
          CheckChatStep(user_id, first_ok, second_ok)

\* chat_rate_limit.rs: reset_chat_rate_limit (DEL of both keys)
ResetChatRateLimit ==
    /\ cache_up
    /\ \E user_id \in UserIds : chat_counters' = [chat_counters EXCEPT ![user_id] = NoChat]
    /\ UNCHANGED <<now, users, refresh_tokens, email_verifications, limiter, next_jti, cookies,
                   bearers, blacklist, counters, cache_up, req, last, attempts>>
    /\ UnchangedHistory

\* rate_limit.rs: reset_rate_limit (DEL)
ResetRateLimit ==
    /\ cache_up
    /\ \E ip \in Origins : counters' = [counters EXCEPT ![ip] = NoRow]
    /\ UNCHANGED <<now, users, refresh_tokens, email_verifications, limiter, next_jti, cookies,
                   bearers, blacklist, chat_counters, cache_up, req, last, attempts>>
    /\ UnchangedHistory

\* the Valkey server becomes unreachable / reachable again
CacheDown ==
    /\ cache_up
    /\ cache_up' = FALSE
    /\ UNCHANGED <<now, users, refresh_tokens, email_verifications, limiter, next_jti, cookies,
                   bearers, blacklist, counters, chat_counters, req, last, attempts>>
    /\ UnchangedHistory

CacheUp ==
    /\ ~cache_up
    /\ cache_up' = TRUE
    /\ UNCHANGED <<now, users, refresh_tokens, email_verifications, limiter, next_jti, cookies,
                   bearers, blacklist, counters, chat_counters, req, last, attempts>>
    /\ UnchangedHistory

\* Valkey: a key with a TTL is gone once the TTL has run out, a key without one stays
Expire(row, t) ==
    IF row # NoRow /\ row.expire_at # None /\ row.expire_at <= t THEN NoRow ELSE row

\* the clock advances; Valkey drops the keys whose TTL has run out
Tick ==
    /\ now < MaxTime
    /\ now' = now + 1
    /\ blacklist' = {e \in blacklist : now + 1 < e.expire_at}
    /\ counters' = [o \in Origins |-> Expire(counters[o], now + 1)]
    /\ chat_counters' = [u \in UserIds |->
                           [minute |-> Expire(chat_counters[u].minute, now + 1),
                            daily |-> Expire(chat_counters[u].daily, now + 1)]]
    /\ attempts' = [o \in Origins |-> 0]
    /\ UNCHANGED <<users, refresh_tokens, email_verifications, limiter, next_jti, cookies,
                   bearers, cache_up, req, last>>
    /\ UnchangedHistory

RegisterAlice == Register({"alice"}, {"alice@example.com"}, {"SecurePass123!"})

\* The refresh-token store and the requests that write it, served one after another.
Next ==
    \/ SeedAdmin
    \/ Login
    \/ Refresh(1)
    \/ Logout
    \/ RevokeAllUserTokens
    \/ CleanupExpiredTokens
    \/ Tick

Spec == Init /\ [][Next]_vars

\* One refresh request, its database writes taken one at a time.
NextSteps ==
    \/ SeedAdmin
    \/ Login
    \/ RefreshValidate(1)
    \/ RefreshCreate(1)
    \/ RefreshRevoke(1)
    \/ RefreshStore(1)
    \/ Tick

SpecSteps == Init /\ [][NextSteps]_vars

\* Refresh requests running concurrently.
NextRace ==
    \/ SeedAdmin
    \/ Login
    \/ \E p \in Procs : RefreshValidate(p)
    \/ \E p \in Procs : RefreshCreate(p)
    \/ \E p \in Procs : RefreshRevoke(p)
    \/ \E p \in Procs : RefreshStore(p)
    \/ Tick

SpecRace == Init /\ [][NextRace]_vars

\* The per-request gate, the blacklist and the cache behind it.
NextGate ==
    \/ SeedAdmin
    \/ Login
    \/ LogoutObserved
    \/ GetCurrentUser
    \/ AddToBlacklist
    \/ CacheDown
    \/ CacheUp
    \/ Tick

SpecGate == Init /\ [][NextGate]_vars

\* Account administration against login and refresh.
NextAdmin ==
    \/ SeedAdmin
    \/ RegisterAlice
    \/ LoginObserved
    \/ RefreshValidate(1)
    \/ RefreshCreate(1)
    \/ RefreshRevoke(1)
    \/ RefreshStore(1)
    \/ DisableUser
    \/ EnableUser
    \/ Tick

SpecAdmin == Init /\ [][NextAdmin]_vars

\* The gates in front of the protected and the admin routes, with accounts being
\* disabled and enabled between the requests.
NextAdminGate ==
    \/ SeedAdmin
    \/ RegisterAlice
    \/ Login
    \/ DisableUserObserved
    \/ EnableUserObserved
    \/ GetCurrentUser
    \/ Tick

SpecAdminGate == Init /\ [][NextAdminGate]_vars

\* Registration against a table that may already hold the name or the address.
NextRegister ==
    \/ SeedAdmin
    \/ RegisterObserved
    \/ Tick

SpecRegister == Init /\ [][NextRegister]_vars

\* Sign-in attempts against accounts with a password, without one, and with a stored
\* hash that does not parse.
NextLogin ==
    \/ SeedAdmin
    \/ ExternalAccount
    \/ LoginAttempt
    \/ Tick

SpecLogin == Init /\ [][NextLogin]_vars

\* Signing out, once and again, with the cookies and bearer tokens handed out at login.
NextLogout ==
    \/ SeedAdmin
    \/ Login
    \/ LogoutAttempt
    \/ Tick

SpecLogout == Init /\ [][NextLogout]_vars

\* validate_refresh_token over the stores that signing in, revoking and the clock
\* produce.
NextValidate ==
    \/ SeedAdmin
    \/ Login
    \/ RevokeAllUserTokens
    \/ ValidateRefreshToken
    \/ Tick

SpecValidate == Init /\ [][NextValidate]_vars

\* Issuing: every way a refresh-token record comes into being at sign-in or sign-up,
\* next to records issued earlier, some of them expired.
NextIssue ==
    \/ SeedAdmin
    \/ RegisterAlice
    \/ Login
    \/ Tick

SpecIssue == Init /\ [][NextIssue]_vars

\* Email verification: an account registers and its verification token is presented,
\* by two callers whose reads and writes interleave.
NextVerify ==
    \/ RegisterAlice
    \/ \E p \in Procs : VerifyFind(p)
    \/ \E p \in Procs : VerifyMark(p)
    \/ \E p \in Procs : VerifyFlag(p)
    \/ Tick

SpecVerify == Init /\ [][NextVerify]_vars

\* Refresh requests with tokens that are fresh, rotated, expired or forged.
NextRefreshErrors ==
    \/ SeedAdmin
    \/ Login
    \/ RefreshAttempt
    \/ Tick

SpecRefreshErrors == Init /\ [][NextRefreshErrors]_vars

\* The blacklist alone: tokens are blacklisted with a ttl while the cache is reachable,
\* and time passes.
NextBlacklist ==
    \/ AddToBlacklistObserved
    \/ CacheDown
    \/ CacheUp
    \/ Tick

SpecBlacklist == Init /\ [][NextBlacklist]_vars

\* Access tokens issued and verified under the same or another secret, at any time.
NextJwt ==
    \/ IssueAccessToken
    \/ VerifyAccessToken
    \/ Tick

SpecJwt == Init /\ [][NextJwt]_vars

\* Retention cleanup over tables holding fresh, revoked and expired records.
NextCleanup ==
    \/ SeedAdmin
    \/ Login
    \/ RevokeAllUserTokens
    \/ CleanupObserved
    \/ Tick

SpecCleanup == Init /\ [][NextCleanup]_vars

\* Refresh requests of two accounts, each holding its own cookies, within the life of
\* the tokens.
NextOwner ==
    \/ SeedAdmin
    \/ RegisterAlice
    \/ Login
    \/ RefreshAttempt

SpecOwner == Init /\ [][NextOwner]_vars

\* Logout from all devices, with two accounts holding several sessions each.
NextRevokeAll ==
    \/ SeedAdmin
    \/ RegisterAlice
    \/ Login
    \/ RevokeAllUserTokens
    \/ Tick

SpecRevokeAll == Init /\ [][NextRevokeAll]_vars

\* The admin routes alone, within the life of the access tokens: accounts sign in,
\* administrators disable and enable them.
NextAdminRoutes ==
    \/ SeedAdmin
    \/ RegisterAlice
    \/ Login
    \/ DisableUserObserved
    \/ EnableUserObserved

SpecAdminRoutes == Init /\ [][NextAdminRoutes]_vars

\* Logins from one origin against the login rate limiter.
NextRate ==
    \/ SeedAdmin
    \/ LoginFrom
    \/ CheckRateLimit
    \/ ResetRateLimit
    \/ Tick

SpecRate == Init /\ [][NextRate]_vars

\* The login rate limiter called by one caller at a time.
NextLimiter ==
    \/ CheckRateLimitObserved
    \/ ResetRateLimit
    \/ CacheDown
    \/ CacheUp
    \/ Tick

SpecLimiter == Init /\ [][NextLimiter]_vars

\* The login rate limiter called concurrently, its two commands taken one at a time.
NextWindow ==
    \/ \E p \in Procs : CheckRead(p)
    \/ \E p \in Procs : CheckWrite(p)
    \/ CacheDown
    \/ CacheUp
    \/ Tick

SpecWindow == Init /\ [][NextWindow]_vars

\* The two-tier chat limiter called by one caller at a time.
NextChat ==
    \/ CheckChatRateLimit
    \/ ResetChatRateLimit
    \/ CacheDown
    \/ CacheUp
    \/ Tick

SpecChat == Init /\ [][NextChat]_vars

\* ------------------------------------------------------------- properties

Validate(token) == validate_refresh_token(refresh_tokens, token, token.claims.jti, now)
Rotated(p) == req[p].pc = "done" /\ req[p].result = "Ok"
Unexpired(jti) == refresh_tokens[jti] # NoRow /\ refresh_tokens[jti].expires_at >= now

\* C1: after a rotation has returned Ok, validating the old token fails with
\* InvalidToken or TokenBlacklisted, and validating the new token returns the owner
\* of the old one for as long as the new token is unexpired and unrevoked.
C1_RotationInvalidatesPredecessor ==
    \A p \in Procs : Rotated(p) =>
        /\ ~Validate(req[p].old).ok
        /\ Validate(req[p].old).err \in {"InvalidToken", "TokenBlacklisted"}
        /\ (req[p].new_rt.claims.jti \notin revoked_jtis /\ now <= req[p].new_expires_at)
              => /\ Validate(req[p].new_rt).ok
                 /\ Validate(req[p].new_rt).user_id = req[p].user_id

\* a rotation has returned, the old token is still unexpired and fails, the new one passes
C1_Witness ==
    \E p \in Procs :
        /\ Rotated(p)
        /\ Unexpired(req[p].old.claims.jti)
        /\ ~Validate(req[p].old).ok
        /\ Validate(req[p].new_rt).ok

\* C2: of two refresh requests that present the same refresh token, at most one
\* returns a new token pair, however their steps interleave.
C2_AtMostOneSuccessor ==
    ~(Rotated(1) /\ Rotated(2) /\ req[1].old = req[2].old)

\* C3: a token whose row ever carried a revocation timestamp never validates again.
C3_RevocationIsTerminal ==
    \A token \in RefreshTokens :
        token.claims.jti \in revoked_jtis => ~Validate(token).ok

\* a revoked token that is still stored and unexpired is refused as TokenBlacklisted
C3_Witness ==
    \E token \in cookies :
        /\ token.claims.jti \in revoked_jtis
        /\ Unexpired(token.claims.jti)
        /\ ~Validate(token).ok
        /\ Validate(token).err = "TokenBlacklisted"

\* C4: when the insert of the new row fails during a rotation, the old token still
\* validates right after the failed rotation.
C4_FailedInsertKeepsOldUsable ==
    [][\A p \in Procs :
          (req[p].pc = "storing" /\ req'[p].pc = "done" /\ req'[p].result = "DatabaseError")
             => validate_refresh_token(refresh_tokens', req[p].old,
                                       req[p].old.claims.jti, now').ok]_vars

\* C5: a protected request whose access token is in the blacklist is not granted.
C5_BlacklistedTokenRejected ==
    (last.op \in {"me", "logout"} /\ last.blacklisted) => ~last.granted

\* C6: a successful logout leaves the presented refresh token revoked and the access
\* token of the request blacklisted until that token's own expiry.
C6_LogoutRevokesAndBlacklists ==
    [][\A at \in AccessTokens, rt \in RefreshTokens, db_ok \in BOOLEAN :
          (logout(at, rt, db_ok).result = "Ok" /\ LogoutStep(at, rt, db_ok))
             => /\ refresh_tokens'[rt.claims.jti].revoked_at # None
                /\ now < at.claims.exp
                      => \E e \in blacklist' : e.token = at /\ e.expire_at = at.claims.exp]_vars

\* C7: a protected request made while the blacklist cannot be consulted is not granted.
C7_LookupFailureDenies ==
    (last.op \in {"me", "logout"} /\ ~last.cache) => ~last.granted

\* C8: a refresh made with a token that was Issued when its owner was disabled
\* never returns a new token pair.
C8_DisabledUserCannotRefresh ==
    \A p \in Procs : ~(Rotated(p) /\ req[p].after_disable)

\* C9: a login for a user whose disabled timestamp is set fails and issues nothing.
C9_DisabledUserCannotLogin ==
    (last.op = "login" /\ last.disabled) => (last.outcome # "Ok" /\ ~last.issued)

\* C10: the login after max_attempts logins of one origin inside a window returns
\* RateLimitExceeded and issues nothing.
C10_SixthLoginRateLimited ==
    (last.op = "login" /\ last.attempt > max_attempts)
       => (last.outcome = "RateLimitExceeded" /\ ~last.issued)

C12_CountersCarryTheirWindow ==
    \A o \in Origins :
        counters[o] # NoRow =>
            /\ counters[o].expire_at # None
            /\ counters[o].expire_at <= now + window_seconds

\* C13: a check_chat_rate_limit call that reports exceeded leaves both counters of the
\* user as they were, one that reports not exceeded raises both by exactly one, and
\* either leaves the counters of every other user as they were.
C13_RejectedChatCallConsumesNothing ==
    [][\A user_id \in UserIds, second_ok \in BOOLEAN :
          LET r == check_chat_rate_limit(chat_counters, user_id, now, TRUE, second_ok)
          IN (CheckChatStep(user_id, TRUE, second_ok) /\ Verdict(r) # "error") =>
                /\ \A u \in UserIds \ {user_id} : chat_counters'[u] = chat_counters[u]
                /\ Verdict(r) = "exceeded" => chat_counters'[user_id] = chat_counters[user_id]
                /\ Verdict(r) = "allowed" =>
                      /\ Count(chat_counters'[user_id].minute)
                            = Count(chat_counters[user_id].minute) + 1
                      /\ Count(chat_counters'[user_id].daily)
                            = Count(chat_counters[user_id].daily) + 1]_vars

\* a call was rejected by the daily quota while the per-minute counter had room
C13_Witness ==
    /\ last.op = "chat"
    /\ last.verdict = "exceeded"
    /\ last.limit_type = "daily"
    /\ Count(chat_counters[last.user_id].minute) < rate_limit_per_minute
    /\ Count(chat_counters[last.user_id].daily) = daily_message_quota

\* C14: an admin-only operation runs only when, as the request arrives, the users row
\* the access token names exists, has the admin role and is not disabled, whatever the
\* row was when the token was signed.
C14_AdminGateReadsTheRow ==
    (last.op \in {"disable_user", "enable_user"} /\ last.granted) =>
        /\ last.signed
        /\ last.actor # NoRow
        /\ last.actor.role = "admin"
        /\ last.actor.disabled_at = None

\* an admin request with a validly signed, unexpired token of an admin was refused
\* because the admin had been disabled after the token was signed
C14_Witness ==
    /\ last.op \in {"disable_user", "enable_user"}
    /\ last.signed
    /\ ~last.granted
    /\ last.outcome = "FORBIDDEN"
    /\ last.actor # NoRow
    /\ last.actor.role = "admin"
    /\ last.actor.disabled_at # None

\* C15: a protected request is refused when the users row its access token names does
\* not exist or is disabled, although the token is validly signed and unexpired.
C15_ProtectedGateReadsTheRow ==
    (last.op \in {"me", "logout"} /\ last.signed
        /\ (last.actor = NoRow \/ last.actor.disabled_at # None))
       => ~last.granted

C17_CredentialFailuresAreAlike ==
    (last.op = "login_attempt" /\ last.case # "match") =>
        /\ last.reply = [result |-> "InvalidCredentials", at |-> NoToken, rt |-> NoToken]
        /\ ~last.wrote

\* a login to an account whose stored hash does not parse was answered InvalidCredentials
C17_Witness ==
    /\ last.op = "login_attempt"
    /\ last.case = "bad_hash"
    /\ last.reply.result = "InvalidCredentials"

\* C18: a logout with a refresh token whose record is already revoked fails with
\* InvalidToken, leaves the revocation timestamp of the record as it was and adds
\* nothing to the blacklist.
C18_RepeatedLogoutFailsSilently ==
    (last.op = "logout_attempt" /\ last.granted /\ last.db_ok
        /\ last.row_before # NoRow /\ last.row_before.revoked_at # None)
       => /\ last.outcome = "InvalidToken"
          /\ last.row_after = last.row_before
          /\ ~last.added_to_blacklist

\* C19: validate_refresh_token answers InvalidToken when no record has the jti or the
\* stored hash is not the hash of the presented token, whatever else holds of the record;
\* otherwise TokenBlacklisted when the record is revoked, expired or not; otherwise
\* TokenExpired when the expiry lies in the past; otherwise the owning user id.
C19_ValidationOrder ==
    last.op = "validate" =>
        LET row == last.row
            known == row # NoRow /\ row.token_hash = hash_token(last.token)
        IN /\ ~known => last.reply = [ok |-> FALSE, err |-> "InvalidToken"]
           /\ (known /\ row.revoked_at # None) =>
                 last.reply = [ok |-> FALSE, err |-> "TokenBlacklisted"]
           /\ (known /\ row.revoked_at = None /\ row.expires_at < last.at) =>
                 last.reply = [ok |-> FALSE, err |-> "TokenExpired"]
           /\ (known /\ row.revoked_at = None /\ row.expires_at >= last.at) =>
                 last.reply = [ok |-> TRUE, user_id |-> row.user_id]

\* the token of a record that is both revoked and expired was answered TokenBlacklisted
C19_Witness ==
    /\ last.op = "validate"
    /\ last.row # NoRow
    /\ last.row.token_hash = hash_token(last.token)
    /\ last.row.revoked_at # None
    /\ last.row.expires_at < last.at
    /\ last.reply = [ok |-> FALSE, err |-> "TokenBlacklisted"]

\* the step from db to db2 adds one record and touches no other: the record has the jti
\* of the returned refresh token rt as its id, belongs to user_id, holds the hash of rt,
\* is neither revoked nor expired, and the response carries an access token of user_id
OneIssued(db, db2, rt, at, user_id) ==
    /\ rt # NoToken /\ at # NoToken
    /\ at.claims.sub = user_id
    /\ rt.claims.sub = user_id
    /\ db[rt.claims.jti] = NoRow
    /\ db2[rt.claims.jti] # NoRow
    /\ db2[rt.claims.jti].user_id = user_id
    /\ db2[rt.claims.jti].token_hash = hash_token(rt)
    /\ db2[rt.claims.jti].revoked_at = None
    /\ db2[rt.claims.jti].expires_at >= now
    /\ \A j \in Jtis \ {rt.claims.jti} : db2[j] = db[j]

\* what a login step does to the refresh-token table
LoginIssues ==
    \A username \in Usernames, password \in Passwords, db_ok \in BOOLEAN :
       LET r == login(username, password, db_ok)
       IN LoginStep(username, password, db_ok) =>
             IF r.result = "Ok"
             THEN \E u \in UserByName(username) :
                     OneIssued(refresh_tokens, refresh_tokens', r.rt, r.at, u)
             ELSE refresh_tokens' = refresh_tokens /\ r.rt = NoToken /\ r.at = NoToken

\* what a register step does to the refresh-token table
RegisterIssues ==
    \A username \in Usernames, email \in Emails, password \in Passwords, db_ok \in BOOLEAN :
       LET r == register(username, email, password, 1, db_ok)
       IN RegisterStep(username, email, password, db_ok) =>
             IF r.result = "Ok"
             THEN /\ UserByName(username) = {}
                  /\ \E u \in UserIds :
                        /\ users'[u] # NoRow /\ users'[u].username = username
                        /\ OneIssued(refresh_tokens, refresh_tokens', r.rt, r.at, u)
             ELSE refresh_tokens' = refresh_tokens /\ r.rt = NoToken /\ r.at = NoToken

\* C20: a successful login or register adds exactly one refresh-token record, unrevoked
\* and unexpired, owned by the user, with the jti of the returned refresh token as id and
\* the hash of that token stored, returns an access token of that user and changes no
\* other record; a login or register that fails leaves the refresh-token table as it is.
C20_OneIssuedRecordPerSignIn == [][LoginIssues /\ RegisterIssues]_vars

\* a register and a login have each left their record: alice and admin each own a record
\* whose token is in a client's hands, next to a record that has expired
C20_Witness ==
    /\ \E rt \in cookies :
          /\ rt.claims.sub = NewUserId("alice")
          /\ refresh_tokens[rt.claims.jti] # NoRow
          /\ refresh_tokens[rt.claims.jti].token_hash = hash_token(rt)
    /\ \E rt \in cookies :
          /\ rt.claims.sub = NewUserId("admin")
          /\ refresh_tokens[rt.claims.jti] # NoRow
          /\ refresh_tokens[rt.claims.jti].revoked_at = None
    /\ \E j \in Jtis : refresh_tokens[j] # NoRow /\ refresh_tokens[j].expires_at < now

\* C21: an email-verification token verifies at most once, also when two calls with it
\* run at the same time.
C21_VerificationTokenIsOneTimeUse ==
    last.op = "verify_email" => \A t \in VerificationTokens : last.ok_calls[t] <= 1

\* C22: a refresh that fails on the token reports the kind of failure the token checks
\* found: TokenExpired for an expired token, TokenBlacklisted for a revoked or rotated
\* record, InvalidToken for an unknown, wrongly signed or mismatching token.
C22_RefreshReportsFailureKind ==
    (last.op = "refresh" /\ last.fault # "none") => last.outcome = last.fault

\* C23: a register request that returns an error leaves nothing behind: no user row, no
\* email-verification record and no refresh-token record written by it remains.
C23_FailedRegisterLeavesNothing ==
    (last.op = "register" /\ last.outcome # "Ok") =>
        /\ last.users_after = last.users_before
        /\ ~last.added_verifications
        /\ ~last.added_tokens

\* C24: is_blacklisted(token) is true exactly from an add_to_blacklist(token, ttl) until
\* ttl has elapsed since the latest such call, and false for a token never added; adding
\* one token changes the answer for no other token.
C24_BlacklistedUntilTtlElapses ==
    \A token \in SampleTokens :
       is_blacklisted(blacklist, token, now) <=>
          \E a \in LatestAdds : a.token = token /\ now < a.at + a.ttl

\* one token has outlived its ttl and is no longer blacklisted while another, added
\* meanwhile, still is
C24_Witness ==
    /\ \E a \in LatestAdds : now >= a.at + a.ttl /\ ~is_blacklisted(blacklist, a.token, now)
    /\ \E a \in LatestAdds : now < a.at + a.ttl /\ is_blacklisted(blacklist, a.token, now)

C26_CleanupDeletesOnlyOldRecords ==
    last.op = "cleanup" =>
        /\ last.deleted = last.due
        /\ last.changed = last.due
        /\ last.rows_affected = Cardinality(last.due)
        /\ last.lost = {}

\* a cleanup deleted an expired record and kept another one that was not due
C26_Witness ==
    /\ last.op = "cleanup"
    /\ last.rows_affected >= 1
    /\ last.deleted # {}
    /\ \E j \in Jtis : refresh_tokens[j] # NoRow

\* C27: while one refresh request runs alone, and after it, the old refresh token and the
\* new one never both pass validate_refresh_token: the old record is revoked before the
\* new record is inserted.
C27_NeverTwoValidTokensInOneRotation ==
    \A p \in Procs :
       (req[p].old # NoToken /\ req[p].new_rt # NoToken) =>
          ~(Validate(req[p].old).ok /\ Validate(req[p].new_rt).ok)

\* between the two writes of a rotation: the old record is revoked, the new one not yet
\* inserted
C27_Witness ==
    /\ req[1].pc = "storing"
    /\ refresh_tokens[req[1].old.claims.jti].revoked_at # None
    /\ refresh_tokens[req[1].new_rt.claims.jti] = NoRow

\* the step is a run of the retention cleanup
CleanupRan ==
    \E retention_days \in 0..MaxRetention :
       refresh_tokens' = cleanup_expired_tokens(refresh_tokens, retention_days, now).db

\* C28: no step changes the owner, the token hash, the expiry or the creation time of an
\* existing refresh-token record (its id is its key); a step may only set the revocation
\* timestamp, and only a cleanup run removes a record.
C28_RecordsChangeOnlyByRevocation ==
    [][\A j \in Jtis :
          refresh_tokens[j] # NoRow =>
             IF refresh_tokens'[j] = NoRow
             THEN CleanupRan
             ELSE /\ refresh_tokens'[j].user_id = refresh_tokens[j].user_id
                  /\ refresh_tokens'[j].token_hash = refresh_tokens[j].token_hash
                  /\ refresh_tokens'[j].expires_at = refresh_tokens[j].expires_at
                  /\ refresh_tokens'[j].created_at = refresh_tokens[j].created_at]_vars

\* a record has been removed by cleanup, another has been revoked and a third is as issued
C28_Witness ==
    /\ \E j \in Jtis : j < next_jti /\ refresh_tokens[j] = NoRow
    /\ \E j \in Jtis : refresh_tokens[j] # NoRow /\ refresh_tokens[j].revoked_at # None
    /\ \E j \in Jtis : refresh_tokens[j] # NoRow /\ refresh_tokens[j].revoked_at = None

\* C29: the record a successful refresh creates has the owner of the record of the old
\* token, and the new access token and the new refresh token name that same user, who is
\* the user the old token was issued to.
C29_RotationPreservesOwnership ==
    (last.op = "refresh" /\ last.outcome = "Ok") =>
        /\ last.old_owner # NoRow
        /\ last.new_owner # NoRow
        /\ last.new_owner.user_id = last.old_owner.user_id
        /\ last.at.claims.sub = last.old_owner.user_id
        /\ last.rt.claims.sub = last.old_owner.user_id
        /\ last.old_sub = last.old_owner.user_id

\* alice refreshed while admin holds sessions too, and got a pair of her own
C29_Witness ==
    /\ last.op = "refresh"
    /\ last.outcome = "Ok"
    /\ last.old_sub = NewUserId("alice")
    /\ last.at.claims.username = "alice"
    /\ \E j \in Jtis : refresh_tokens[j] # NoRow
                         /\ refresh_tokens[j].user_id = NewUserId("admin")
                         /\ refresh_tokens[j].revoked_at = None

\* the step is a revoke_all_user_tokens(user_id) that returned Ok
RevokeAllRan(user_id) ==
    /\ users[user_id] # NoRow
    /\ now' = now
    /\ refresh_tokens' = revoke_all_user_tokens(refresh_tokens, user_id, now)

\* C30: after revoke_all_user_tokens(U) every refresh token of U stored before the call
\* fails validate_refresh_token, the records of all other users are as they were, and a
\* record of U that was revoked already keeps its revocation timestamp.
C30_RevokeAllRevokesExactlyTheUser ==
    [][\A user_id \in UserIds :
          RevokeAllRan(user_id) =>
             /\ \A tok \in cookies :
                   (refresh_tokens[tok.claims.jti] # NoRow
                       /\ refresh_tokens[tok.claims.jti].user_id = user_id)
                     => ~validate_refresh_token(refresh_tokens', tok, tok.claims.jti, now).ok
             /\ \A j \in Jtis :
                   (refresh_tokens[j] # NoRow
                       /\ (refresh_tokens[j].user_id # user_id
                              \/ refresh_tokens[j].revoked_at # None))
                     => refresh_tokens'[j] = refresh_tokens[j]]_vars

\* a user has a record revoked by an earlier call and one revoked by a later call, each
\* with its own timestamp, while a record of the other user is still unrevoked
C30_Witness ==
    \E j1, j2, j3 \in Jtis :
       /\ refresh_tokens[j1] # NoRow /\ refresh_tokens[j2] # NoRow /\ refresh_tokens[j3] # NoRow
       /\ refresh_tokens[j1].user_id = refresh_tokens[j2].user_id
       /\ refresh_tokens[j1].revoked_at # None
       /\ refresh_tokens[j2].revoked_at # None
       /\ refresh_tokens[j1].revoked_at < refresh_tokens[j2].revoked_at
       /\ refresh_tokens[j3].user_id # refresh_tokens[j1].user_id
       /\ refresh_tokens[j3].revoked_at = None

====
